---- MODULE Spec2Model ----
(***************************************************************************)
(* TrustCircle front end (frontend/src/App.jsx): the React component App,  *)
(* its state hooks and its three asynchronous handlers connectWallet,      *)
(* loadUserData and mintReputation, as a state machine.                    *)
(*                                                                         *)
(* Every invocation of connectWallet or mintReputation is an activation    *)
(* held in one slot of `ops`.  An activation runs synchronously up to its  *)
(* next `await`; the resolution or rejection of the awaited promise is one *)
(* step of the environment (wallet or chain).  User clicks happen between  *)
(* those steps and see the last rendered component state.                  *)
(***************************************************************************)
EXTENDS Integers, Sequences, FiniteSets, TLC

\* ---------------------------------------------------------------- bounds
\* number of handler activations a behaviour may start
MaxOps == 2
\* largest currentTier the chain answers with where the view is examined
MaxTier == 5

\* ------------------------------------------------------ values and domains
Null == "null"
Undefined == "undefined"

\* a state or local that holds no value yet (null), and one that holds v
None == <<>>
Some(v) == <<v>>

\* accounts[0] as answered by the wallet
Addresses == {"0xA", "0xB"}

\* const [activeTab, setActiveTab] = useState('dashboard')
Tabs == {"dashboard", "borrow", "lend", "circles"}

\* uint256 amounts are decimal digit strings, most significant digit first
Zeros(n) == [i \in 1..n |-> 0]

\* getReputationScore(address) returns (uint256)
Scores == {0, 750}

\* currentTier (uint8) as stored by the chain
Tiers == {2}

\* getReputationData(address): the stored tuple
ReputationRecords ==
    [ score : Scores, loansCompleted : {3},
      totalBorrowed : { <<5>> \o Zeros(18) },
      totalRepaid : { <<4, 8>> \o Zeros(17) },
      lastUpdated : {1}, currentTier : Tiers ]

\* getBorrowingLimit(address)
BorrowingLimits == { <<2>> \o Zeros(18) }

\* getInterestRate(address), basis points
InterestRates == {850}

\* getTrustScore(address)
TrustScores == {120}

\* getUserCircles(address)
CircleLists == { <<7, 12>> }

\* const tierNames / tierColors
tierNames == <<"Bronze", "Silver", "Gold", "Platinum", "Diamond">>
tierColors == <<"#CD7F32", "#C0C0C0", "#FFD700", "#E5E4E2", "#B9F2FF">>

\* the reads of loadUserData that follow the score read, in source order
DependentReads ==
    << "getReputationData", "getBorrowingLimit", "getInterestRate",
       "getTrustScore", "getUserCircles" >>

DependentReadSet == { DependentReads[i] : i \in 1..Len(DependentReads) }

\* what each dependent read can resolve with
ReadDomain(read) ==
    CASE read = "getReputationData" -> ReputationRecords
      [] read = "getBorrowingLimit" -> BorrowingLimits
      [] read = "getInterestRate"   -> InterestRates
      [] read = "getTrustScore"     -> TrustScores
      [] read = "getUserCircles"    -> CircleLists

\* alert(...) texts
NoWalletAlert == "Please install MetaMask!"
MintSuccessAlert == "Reputation NFT minted successfully!"
MintErrorAlert == "Error minting NFT"

\* console.error(...) prefixes
ConnectErrorLog == "Error connecting wallet:"
LoadErrorLog == "Error loading user data:"
MintErrorLog == "Error minting:"

\* ------------------------------------------------------------------ state
VARIABLES
    account,          \* useState(null)
    contracts,        \* useState(null): Null or "contracts"
    reputationData,   \* useState(null): None or Some(snapshot)
    snapshotFor,      \* the address whose aggregation filled reputationData
    loading,          \* useState(false)
    activeTab,        \* useState('dashboard')
    ops               \* the activations of connectWallet / mintReputation

vars == << account, contracts, reputationData, snapshotFor, loading, activeTab, ops >>

Slots == 1..MaxOps

\* an activation that has not been started
IdleOp ==
    [ kind |-> "none", pc |-> "idle", address |-> Null,
      score |-> None, data |-> None, borrowingLimit |-> None,
      interestRate |-> None, trustScore |-> None,
      issued |-> {}, completed |-> {},
      load |-> "none", loadReturned |-> Null, published |-> FALSE,
      writes |-> 0, confirmed |-> FALSE,
      alert |-> Null, log |-> {} ]

Init ==
    /\ account = Null
    /\ contracts = Null
    /\ reputationData = None
    /\ snapshotFor = Null
    /\ loading = FALSE
    /\ activeTab = "dashboard"
    /\ ops = [p \in Slots |-> IdleOp]

Started == { p \in Slots : ops[p].kind # "none" }

InFlight == { p \in Slots : ops[p].kind # "none" /\ ops[p].pc # "done" }

\* the slot the next activation takes
FreeSlot == Cardinality(Started) + 1


\* ------------------------------------------------------------ conversions
\* Number(x) of a uint below 2^53 is that integer (every value here is)
Number(n) == n

\* drop the trailing zeros of a fraction, keeping one digit
TrimZeros(d) ==
    LET kept == {1} \cup { i \in 1..Len(d) : d[i] # 0 }
        last == CHOOSE i \in kept : \A j \in kept : j <= i
    IN  SubSeq(d, 1, last)

\* formatUnits(wei, 18): the decimal with 18 fraction digits, trailing
\* zeros dropped ("5.0", "4.8")
formatUnits(wei) ==
    LET padded == IF Len(wei) < 19 THEN Zeros(19 - Len(wei)) \o wei ELSE wei
        n == Len(padded)
    IN  [ whole |-> SubSeq(padded, 1, n - 18),
          frac  |-> TrimZeros(SubSeq(padded, n - 17, n)) ]

\* every amount the chain answers with
WeiAmounts ==
    { r.totalBorrowed : r \in ReputationRecords }
        \cup { r.totalRepaid : r \in ReputationRecords } \cup BorrowingLimits

\* formatUnits tabulated over those amounts
EtherStrings == [wei \in WeiAmounts |-> formatUnits(wei)]

\* ethers.formatEther(wei)
formatEther(wei) == EtherStrings[wei]

\* an integer division, which drops the fraction
BasisPointsTruncated(bps) ==
    [ whole |-> Number(bps) \div 100, hundredths |-> 0 ]

\* Number(interestRate) / 100: the percentage as whole part and hundredths
BasisPointsToPercent(bps) ==
    [ whole |-> Number(bps) \div 100, hundredths |-> Number(bps) % 100 ]

\* the object handed to setReputationData
Snapshot(data, borrowingLimit, interestRate, trustScore, circles) ==
    [ score          |-> Number(data.score),
      tier           |-> Number(data.currentTier),
      loansCompleted |-> Number(data.loansCompleted),
      totalBorrowed  |-> formatEther(data.totalBorrowed),
      totalRepaid    |-> formatEther(data.totalRepaid),
      borrowingLimit |-> formatEther(borrowingLimit),
      interestRate   |-> BasisPointsToPercent(interestRate),
      trustScore     |-> Number(trustScore),
      circles        |-> Len(circles) ]

\* ----------------------------------------------------------- loadUserData
\* const contracts = contractsObj || contracts;  the right-hand `contracts`
\* is the binding being declared: with no contractsObj the read hits the
\* temporal dead zone (ReferenceError), or yields undefined in a build that
\* lowers const to var.  The component state `contracts` is never read.
ContractsBinding(contractsObj) ==
    IF contractsObj # Undefined /\ contractsObj # Null
    THEN {contractsObj}
    ELSE {"ReferenceError", Undefined}

\* a guard that lets the zero score through
ScoreNotNegative(score) == score >= 0

\* if (score > 0)
ScorePositive(score) == score > 0

\* the read awaited after `read`, or Null after the last one
NextRead(read) ==
    LET i == CHOOSE j \in 1..Len(DependentReads) : DependentReads[j] = read
    IN  IF i < Len(DependentReads) THEN DependentReads[i + 1] ELSE Null

\* all dependent reads started together
AllReadsIssued == DependentReadSet

\* the reads loadUserData issues once the score is known to be positive
ReadsIssuedAfterScore == { DependentReads[1] }

\* the reads issued when `read` has resolved
ReadsIssuedAfter(read) == IF NextRead(read) = Null THEN {} ELSE { NextRead(read) }

\* a catch that drops the snapshot
SnapshotCleared(current) == None

\* catch (error) { console.error('Error loading user data:', error); }
\* the value of reputationData after the handler ran
SnapshotAfterLoadFailure(current) == current

\* the locals of a handler, and its outstanding requests, are gone when it
\* returns (score stays: it records what getReputationScore answered)
ClearLocals(op) ==
    [op EXCEPT !.address = Null,
               !.data = None, !.borrowingLimit = None,
               !.interestRate = None, !.trustScore = None,
               !.issued = {}, !.completed = {}]

\* a loadUserData that rethrows a failed read into connectWallet's catch
CallerAfterLoadRethrowing(op, outcome) ==
    [ ClearLocals(op) EXCEPT
        !.pc = "done",
        !.load = outcome,
        !.loadReturned = Undefined,
        !.alert = IF op.kind = "mint" THEN MintSuccessAlert ELSE @,
        !.log = IF op.kind = "connect" /\ outcome = "readFailed"
                THEN @ \cup {ConnectErrorLog} ELSE @ ]

\* a mintReputation that submits the mint again when its refresh failed
CallerAfterLoadReminting(op, outcome) ==
    IF op.kind = "mint" /\ outcome \in {"threw", "noContracts", "readFailed"}
    THEN [ ClearLocals(op) EXCEPT
             !.pc = "mint", !.load = outcome, !.loadReturned = Undefined,
             !.writes = @ + 1 ]
    ELSE [ ClearLocals(op) EXCEPT
             !.pc = "done", !.load = outcome, !.loadReturned = Undefined,
             !.alert = IF op.kind = "mint" THEN MintSuccessAlert ELSE @ ]

\* loadUserData has returned (its promise resolves with undefined whatever
\* happened inside): the caller's statements after `await loadUserData(...)`
\*   connectWallet:   setLoading(false)
\*   mintReputation:  setLoading(false); alert('... minted successfully!')
CallerAfterLoad(op, outcome) ==
    [ ClearLocals(op) EXCEPT
        !.pc = "done",
        !.load = outcome,
        !.loadReturned = Undefined,
        !.alert = IF op.kind = "mint" THEN MintSuccessAlert ELSE @ ]

\* loadUserData(address, contractsObj) from its first statement to its first
\* await, or to its return when it issues no read; c is the value the
\* declaration of `contracts` evaluates to
LoadEnter(op, c) ==
    CASE c = "ReferenceError" ->
            CallerAfterLoad([op EXCEPT !.log = @ \cup {LoadErrorLog}], "threw")
      [] c = Undefined ->
            CallerAfterLoad(op, "noContracts")
      [] OTHER ->
            [op EXCEPT !.pc = "getReputationScore"]

\* ---------------------------------------------------------- connectWallet
\* onClick={connectWallet} disabled={loading}, rendered while !account
HeaderButtonEnabled == account = Null /\ ~loading

\* onClick={connectWallet} of 'Get Started', rendered while !account
GetStartedEnabled == account = Null

\* connectWallet up to `await provider.send("eth_requestAccounts", [])`
ConnectWalletStart(hasEthereum) ==
    /\ FreeSlot \in Slots
    /\ IF hasEthereum
       THEN /\ loading' = TRUE
            /\ ops' = [ops EXCEPT ![FreeSlot] =
                         [IdleOp EXCEPT !.kind = "connect", !.pc = "eth_requestAccounts"]]
       ELSE /\ loading' = loading
            /\ ops' = [ops EXCEPT ![FreeSlot] =
                         [IdleOp EXCEPT !.kind = "connect", !.pc = "done",
                                        !.alert = NoWalletAlert]]
    /\ UNCHANGED << account, contracts, reputationData, snapshotFor, activeTab >>

ClickConnect ==
    /\ HeaderButtonEnabled
    /\ \E hasEthereum \in BOOLEAN : ConnectWalletStart(hasEthereum)

ClickGetStarted ==
    /\ GetStartedEnabled
    /\ \E hasEthereum \in BOOLEAN : ConnectWalletStart(hasEthereum)

\* a catch that forgets setLoading(false)
ConnectCatchKeepsLoading(p) ==
    /\ ops' = [ops EXCEPT ![p] =
                 [ClearLocals(@) EXCEPT !.pc = "done", !.log = @ \cup {ConnectErrorLog}]]
    /\ UNCHANGED << account, contracts, reputationData, snapshotFor, loading, activeTab >>

\* catch (error) { console.error('Error connecting wallet:', error); setLoading(false); }
ConnectCatch(p) ==
    /\ loading' = FALSE
    /\ ops' = [ops EXCEPT ![p] =
                 [ClearLocals(@) EXCEPT !.pc = "done", !.log = @ \cup {ConnectErrorLog}]]
    /\ UNCHANGED << account, contracts, reputationData, snapshotFor, activeTab >>

\* setAccount(accounts[0]) moved before `await provider.getSigner()`
AccountSetEarly(acct, a) == a

\* the account state once eth_requestAccounts has resolved with a: setAccount
\* is not called before getSigner has resolved too
AccountAfterAccounts(acct, a) == acct

\* eth_requestAccounts resolves: on to `await provider.getSigner()`
AccountsResolve(p) ==
    /\ ops[p].pc = "eth_requestAccounts"
    /\ \E a \in Addresses :
         /\ ops' = [ops EXCEPT ![p] = [@ EXCEPT !.pc = "getSigner", !.address = a]]
         /\ account' = AccountAfterAccounts(account, a)
    /\ UNCHANGED << contracts, reputationData, snapshotFor, loading, activeTab >>

\* the wallet rejects the account request
AccountsReject(p) ==
    /\ ops[p].pc = "eth_requestAccounts"
    /\ ConnectCatch(p)

\* getSigner resolves: setProvider, setSigner, setAccount, setContracts, then
\* loadUserData(accounts[0], {...}) up to its first await
SignerResolve(p) ==
    /\ ops[p].pc = "getSigner"
    /\ account' = ops[p].address
    /\ contracts' = "contracts"
    /\ \E c \in ContractsBinding("contracts") :
         LET op == LoadEnter(ops[p], c) IN
         /\ ops' = [ops EXCEPT ![p] = op]
         /\ loading' = IF op.pc = "done" THEN FALSE ELSE loading
    /\ UNCHANGED << reputationData, snapshotFor, activeTab >>

SignerReject(p) ==
    /\ ops[p].pc = "getSigner"
    /\ ConnectCatch(p)

\* -------------------------------------------------- loadUserData, awaited
\* getReputationScore resolves with s
ScoreResolve(p) ==
    /\ ops[p].pc = "getReputationScore"
    /\ \E s \in Scores :
         IF ScorePositive(s)
         THEN /\ ops' = [ops EXCEPT ![p] =
                           [@ EXCEPT !.score = Some(s), !.pc = DependentReads[1],
                                     !.issued = ReadsIssuedAfterScore]]
              /\ loading' = loading
         ELSE /\ ops' = [ops EXCEPT ![p] =
                           CallerAfterLoad([@ EXCEPT !.score = Some(s)], "zero")]
              /\ loading' = FALSE
    /\ UNCHANGED << account, contracts, reputationData, snapshotFor, activeTab >>

\* the local a dependent read is assigned to
StoreRead(op, read, v) ==
    CASE read = "getReputationData" -> [op EXCEPT !.data = Some(v)]
      [] read = "getBorrowingLimit" -> [op EXCEPT !.borrowingLimit = Some(v)]
      [] read = "getInterestRate"   -> [op EXCEPT !.interestRate = Some(v)]
      [] read = "getTrustScore"     -> [op EXCEPT !.trustScore = Some(v)]
      [] OTHER -> op

\* a dependent read resolves with v: the next read is issued, or after the
\* last one setReputationData({...}) runs and loadUserData returns
ReadResolve(p) ==
    /\ ops[p].pc \in DependentReadSet
    /\ ops[p].pc \in ops[p].issued
    /\ \E v \in ReadDomain(ops[p].pc) :
         LET read == ops[p].pc
             got  == [StoreRead(ops[p], read, v) EXCEPT
                         !.completed = @ \cup {read},
                         !.issued = @ \cup ReadsIssuedAfter(read)]
         IN  IF NextRead(read) # Null
             THEN /\ ops' = [ops EXCEPT ![p] = [got EXCEPT !.pc = NextRead(read)]]
                  /\ UNCHANGED << reputationData, snapshotFor, loading >>
             ELSE /\ reputationData' =
                        Some(Snapshot(got.data[1], got.borrowingLimit[1],
                                      got.interestRate[1], got.trustScore[1], v))
                  /\ snapshotFor' = ops[p].address
                  /\ ops' = [ops EXCEPT ![p] =
                               CallerAfterLoad([got EXCEPT !.published = TRUE], "published")]
                  /\ loading' = FALSE
    /\ UNCHANGED << account, contracts, activeTab >>

\* an awaited read rejects: the catch of loadUserData, then its caller goes on
ReadReject(p) ==
    /\ ops[p].pc \in DependentReadSet \cup {"getReputationScore"}
    /\ reputationData' = SnapshotAfterLoadFailure(reputationData)
    /\ snapshotFor' = snapshotFor
    /\ ops' = [ops EXCEPT ![p] =
                 CallerAfterLoad([@ EXCEPT !.log = @ \cup {LoadErrorLog}], "readFailed")]
    /\ loading' = FALSE
    /\ UNCHANGED << account, contracts, activeTab >>

\* --------------------------------------------------------- mintReputation
\* onClick={mintReputation} disabled={loading}, rendered on the dashboard
\* tab while account is set and reputationData is not
MintButtonEnabled ==
    /\ account # Null
    /\ activeTab = "dashboard"
    /\ reputationData = None
    /\ ~loading

\* a catch that resets the session
SessionReset(acct, snapshot) == << Null, None >>

\* catch (error) { console.error(...); setLoading(false); alert('Error minting NFT'); }
\* the values of account and reputationData after the handler ran
SessionAfterMintFailure(acct, snapshot) == << acct, snapshot >>

MintCatch(p, op) ==
    /\ loading' = FALSE
    /\ ops' = [ops EXCEPT ![p] =
                 [ClearLocals(op) EXCEPT !.pc = "done", !.alert = MintErrorAlert,
                                         !.log = @ \cup {MintErrorLog}]]
    /\ account' = SessionAfterMintFailure(account, reputationData)[1]
    /\ reputationData' = SessionAfterMintFailure(account, reputationData)[2]
    /\ snapshotFor' = snapshotFor
    /\ UNCHANGED << contracts, activeTab >>

\* mintReputation up to `await contracts.reputationNFT.mint(account)`
ClickMint ==
    /\ MintButtonEnabled
    /\ FreeSlot \in Slots
    /\ LET op == [IdleOp EXCEPT !.kind = "mint", !.address = account] IN
       IF contracts = Null
       THEN MintCatch(FreeSlot, op)
       ELSE /\ loading' = TRUE
            /\ ops' = [ops EXCEPT ![FreeSlot] = [op EXCEPT !.pc = "mint", !.writes = @ + 1]]
            /\ UNCHANGED << account, contracts, reputationData, snapshotFor, activeTab >>

\* a mintReputation that does not await tx.wait() before loadUserData
MintResolveRefreshing(p) ==
    /\ ops[p].pc = "mint"
    /\ \E c \in ContractsBinding(Undefined) :
         LET op == LoadEnter(ops[p], c) IN
         /\ ops' = [ops EXCEPT ![p] = op]
         /\ loading' = IF op.pc = "done" THEN FALSE ELSE loading
    /\ UNCHANGED << account, contracts, reputationData, snapshotFor, activeTab >>

\* the mint transaction is submitted: on to `await tx.wait()`
MintResolve(p) ==
    /\ ops[p].pc = "mint"
    /\ ops' = [ops EXCEPT ![p] = [@ EXCEPT !.pc = "wait"]]
    /\ UNCHANGED << account, contracts, reputationData, snapshotFor, loading, activeTab >>

MintReject(p) ==
    /\ ops[p].pc = "mint"
    /\ MintCatch(p, ops[p])

\* the transaction is confirmed: loadUserData(account) up to its first await
WaitResolve(p) ==
    /\ ops[p].pc = "wait"
    /\ \E c \in ContractsBinding(Undefined) :
         LET op == LoadEnter([ops[p] EXCEPT !.confirmed = TRUE], c) IN
         /\ ops' = [ops EXCEPT ![p] = op]
         /\ loading' = IF op.pc = "done" THEN FALSE ELSE loading
    /\ UNCHANGED << account, contracts, reputationData, snapshotFor, activeTab >>

WaitReject(p) ==
    /\ ops[p].pc = "wait"
    /\ MintCatch(p, ops[p])

\* ------------------------------------------------------------------- tabs
\* onClick={() => setActiveTab(...)}, rendered while account is set
SetActiveTab(t) ==
    /\ account # Null
    /\ activeTab # t
    /\ activeTab' = t
    /\ UNCHANGED << account, contracts, reputationData, snapshotFor, loading, ops >>

\* ---------------------------------------------------------- specification
Next ==
    \/ ClickConnect
    \/ ClickGetStarted
    \/ ClickMint
    \/ \E t \in Tabs : SetActiveTab(t)
    \/ \E p \in Slots :
         \/ AccountsResolve(p)
         \/ AccountsReject(p)
         \/ SignerResolve(p)
         \/ SignerReject(p)
         \/ ScoreResolve(p)
         \/ ReadResolve(p)
         \/ ReadReject(p)
         \/ MintResolve(p)
         \/ MintReject(p)
         \/ WaitResolve(p)
         \/ WaitReject(p)

Spec == Init /\ [][Next]_vars

\* the wallet or the chain answers the request activation p is suspended at
Respond(p) ==
    \/ AccountsResolve(p) \/ AccountsReject(p)
    \/ SignerResolve(p) \/ SignerReject(p)
    \/ ScoreResolve(p) \/ ReadResolve(p) \/ ReadReject(p)
    \/ MintResolve(p) \/ MintReject(p)
    \/ WaitResolve(p) \/ WaitReject(p)

\* ------------------------------------------------------------------- view
\* tierNames[reputationData.tier]: an index past the array gives undefined
TierName(tier) ==
    IF tier + 1 \in DOMAIN tierNames THEN tierNames[tier + 1] ELSE Undefined

\* tierColors[reputationData.tier]
TierColor(tier) ==
    IF tier + 1 \in DOMAIN tierColors THEN tierColors[tier + 1] ELSE Undefined

\* the tier badge of the reputation card
TierView(snapshot) ==
    [ name |-> TierName(snapshot.tier), color |-> TierColor(snapshot.tier) ]

\* the records and rates the view is examined on
ViewRecords ==
    [ score : Scores, loansCompleted : {3},
      totalBorrowed : { <<5>> \o Zeros(18) },
      totalRepaid : { <<4, 8>> \o Zeros(17) },
      lastUpdated : {1}, currentTier : 0..MaxTier ]

ViewRates == {250, 850}

\* the session right after one connectWallet published its Snapshot
ViewInit ==
    /\ account \in Addresses
    /\ contracts = "contracts"
    /\ \E r \in ViewRecords, l \in BorrowingLimits, i \in ViewRates,
          t \in TrustScores, c \in CircleLists :
         reputationData = Some(Snapshot(r, l, i, t, c))
    /\ snapshotFor = account
    /\ loading = FALSE
    /\ activeTab = "dashboard"
    /\ ops = [p \in Slots |->
                IF p = 1
                THEN CallerAfterLoad(
                         [IdleOp EXCEPT !.kind = "connect", !.score = Some(750),
                                        !.published = TRUE], "published")
                ELSE IdleOp]

\* the component re-renders on every tab change
ViewNext == \E t \in Tabs : SetActiveTab(t)

ViewSpec == ViewInit /\ [][ViewNext]_vars

\* a pending wallet or service call is eventually resolved or rejected
\* (once enabled, Respond(p) stays enabled until p takes the step)
FairSpec == Spec /\ WF_vars(\E p \in Slots : Respond(p))

\* ================================================================= claims

\* C1: at most one connect, loadSnapshot or mintReputation operation is in
\* flight at any time.
C1_AtMostOneInFlight == Cardinality(InFlight) <= 1

\* C2: a loadUserData call in which a read fails publishes no Snapshot, and
\* the step in which the failure is handled leaves reputationData exactly
\* as it was.
C2_FailedLoadKeepsSnapshot ==
    [][\A p \in Slots :
         (ops[p].load = "none" /\ ops'[p].load = "readFailed")
            => (reputationData' = reputationData /\ ~ops'[p].published)]_vars

\* a read failed while a Snapshot was held
C2_Witness ==
    \E p \in Slots : ops[p].load = "readFailed" /\ reputationData # None

\* C3: after a mintReputation whose write and confirmation succeeded, the
\* refresh runs and, unless one of its reads fails or the score is 0, a
\* Snapshot with score > 0 is held.
C3_MintRefreshPublishes ==
    \A p \in Slots :
        (ops[p].kind = "mint" /\ ops[p].pc = "done" /\ ops[p].confirmed
            /\ ops[p].load \notin {"readFailed", "zero"})
        => (reputationData # None /\ reputationData[1].score > 0)

ReadPrefix(k) == { DependentReads[i] : i \in 1..k }

C5_SnapshotScorePositive ==
    reputationData # None => reputationData[1].score > 0

\* C6: a loadUserData call whose score read answered 0 returns at once: it
\* issues no further read, publishes nothing and logs no error.
C6_ZeroScoreNoSnapshot ==
    \A p \in Slots :
        ops[p].score = Some(0)
        => /\ ops[p].pc = "done"
           /\ ops[p].load = "zero"
           /\ ~ops[p].published
           /\ LoadErrorLog \notin ops[p].log

\* a score read answered 0
C6_Witness == \E p \in Slots : ops[p].score = Some(0)

\* C7: loading is true whenever a connect or a mintReputation has started
\* and not completed.
C7_LoadingWhileInFlight == InFlight # {} => loading

\* what mintReputation shows when it completes
MintOutcome(op) == op.alert

\* C8: a mint whose write and confirmation succeeded and whose refresh
\* failed ends with an outcome that is neither the success outcome nor the
\* failed-write outcome.
C8_RefreshFailureDistinct ==
    \A p \in Slots :
        (ops[p].kind = "mint" /\ ops[p].pc = "done" /\ ops[p].confirmed
            /\ ops[p].load \in {"threw", "readFailed"})
        => MintOutcome(ops[p]) \notin {MintSuccessAlert, MintErrorAlert}

\* what the caller of loadUserData can observe of a completed call: the value
\* its promise resolved with and whether it replaced the Snapshot
CallerView(op) == << op.loadReturned, op.published >>

\* C9: a call in which a read failed and a call whose score read answered 0
\* look different to their callers.
C9_FailureDistinctFromZero ==
    \A p, q \in Slots :
        (ops[p].load = "readFailed" /\ ops[q].load = "zero")
        => CallerView(ops[p]) # CallerView(ops[q])

\* C10: a mintReputation whose write or confirmation wait fails reports the
\* failure, has issued no read, and its failing step leaves account and
\* reputationData as they were.
C10_FailedMintFrame ==
    [][\A p \in Slots :
         (ops[p].pc \in {"mint", "wait"} /\ ops'[p].pc = "done"
             /\ ~ops'[p].confirmed)
         => /\ ops'[p].alert = MintErrorAlert
            /\ ops'[p].load = "none"
            /\ ops'[p].score = None
            /\ ~ops'[p].published
            /\ account' = account
            /\ reputationData' = reputationData]_vars

\* a mint failed at the write or at the confirmation wait
C10_Witness ==
    \E p \in Slots :
        ops[p].kind = "mint" /\ ops[p].pc = "done" /\ ~ops[p].confirmed

\* a connectWallet activation that ended on its failure path: no wallet, or
\* the catch after a rejected account request or getSigner
ConnectFailed(op) ==
    /\ op.kind = "connect"
    /\ op.pc = "done"
    /\ (op.alert = NoWalletAlert \/ ConnectErrorLog \in op.log)

\* C11: a failed connect sets no identity, issues no read, publishes no
\* Snapshot and starts no further activation; while only failed connects
\* have run the session is unconnected.
C11_FailedConnectNoSideEffects ==
    /\ []((\A p \in Started : ConnectFailed(ops[p]))
            => (account = Null /\ contracts = Null /\ reputationData = None))
    /\ [](\A p \in Slots :
            ConnectFailed(ops[p])
            => (ops[p].load = "none" /\ ops[p].score = None /\ ~ops[p].published))
    /\ [][\A p \in Slots :
            (~ConnectFailed(ops[p]) /\ ConnectFailed(ops'[p]))
            => /\ account' = account
               /\ contracts' = contracts
               /\ reputationData' = reputationData
               /\ InFlight' \subseteq InFlight \ {p}]_vars

\* the account request or getSigner was rejected and nothing is connected
C11_Witness ==
    \E p \in Slots :
        /\ ConnectErrorLog \in ops[p].log
        /\ account = Null

\* C12: loading is false whenever no activation is in flight, and with every
\* pending call answered a true loading flag becomes false.
C12_LoadingClears ==
    /\ [](InFlight = {} => ~loading)
    /\ (loading ~> ~loading)

\* every started activation has completed: one connect failed, another went
\* on into loadUserData
C12_Witness ==
    /\ InFlight = {}
    /\ ~loading
    /\ \E p \in Slots : ConnectErrorLog \in ops[p].log
    /\ \E p \in Slots : ops[p].kind = "connect" /\ ops[p].load # "none"

\* C13: a Snapshot held in Session State was aggregated for the identity
\* Session State holds.
C13_SnapshotOfCurrentIdentity ==
    reputationData # None => snapshotFor = account

\* C14: once account holds an address no step changes it to another one.
C14_IdentityImmutable ==
    [][account # Null => account' \in {account, Null}]_vars

\* the failure the view is specified to raise for a tier outside 0..4
InvariantViolation == "InvariantViolation"

\* the five fixed (name, color) pairs
TierPairs ==
    << [name |-> "Bronze",   color |-> "#CD7F32"],
       [name |-> "Silver",   color |-> "#C0C0C0"],
       [name |-> "Gold",     color |-> "#FFD700"],
       [name |-> "Platinum", color |-> "#E5E4E2"],
       [name |-> "Diamond",  color |-> "#B9F2FF"] >>

\* C15: the view maps a tier in 0..4 to its fixed (name, color) pair and
\* fails with InvariantViolation on any other tier.
C15_TierViewTotal ==
    reputationData # None =>
        LET snapshot == reputationData[1] IN
        IF snapshot.tier \in 0..4
        THEN TierView(snapshot) = TierPairs[snapshot.tier + 1]
        ELSE /\ TierView(snapshot).name = InvariantViolation
             /\ TierView(snapshot).color = InvariantViolation

\* C15, the in-range half alone
C15_InRangeTiers ==
    reputationData # None =>
        (reputationData[1].tier \in 0..4
            => TierView(reputationData[1]) = TierPairs[reputationData[1].tier + 1])

\* basis-point values the conversion is examined on
RateSamples == {0, 1, 7, 250, 850, 10000}

C17_MintWrittenOnce ==
    \A p \in Slots :
        /\ ops[p].writes <= 1
        /\ (ops[p].kind = "mint" /\ ops[p].pc = "done" /\ ops[p].confirmed)
              => ops[p].writes = 1

\* a confirmed mint whose refresh failed has completed
C17_Witness ==
    \E p \in Slots :
        /\ ops[p].kind = "mint" /\ ops[p].pc = "done" /\ ops[p].confirmed
        /\ ops[p].load \in {"threw", "noContracts"}
        /\ ops[p].writes = 1

\* C18: a mintReputation enters its refresh, and issues any read, only after
\* the write was submitted and the confirmation wait succeeded.
C18_RefreshAfterConfirmation ==
    \A p \in Slots :
        ops[p].kind = "mint" =>
            /\ (ops[p].load # "none" \/ ops[p].issued # {} \/ ops[p].score # None
                  \/ ops[p].pc \in DependentReadSet \cup {"getReputationScore"})
                 => (ops[p].confirmed /\ ops[p].writes >= 1)
            /\ ops[p].confirmed => ops[p].writes >= 1
            /\ ops[p].pc = "wait" => (ops[p].writes >= 1 /\ ~ops[p].confirmed)

\* a mint has entered its refresh
C18_Witness ==
    \E p \in Slots : ops[p].kind = "mint" /\ ops[p].load # "none"

\* C19: when a read of the aggregation a connect started fails, the connect
\* completes as connected: account stays set, loading is cleared, the Snapshot
\* is untouched (absent if this is the only activation so far) and the catch
\* of connectWallet does not run.
C19_ConnectSurvivesFailedLoad ==
    [][\A p \in Slots :
         (ops[p].kind = "connect" /\ ops[p].load = "none"
             /\ ops'[p].load = "readFailed")
         => /\ ops'[p].pc = "done"
            /\ account' = account
            /\ account' # Null
            /\ ~loading'
            /\ reputationData' = reputationData
            /\ ConnectErrorLog \notin ops'[p].log
            /\ Started = {p} => (reputationData' = None /\ account' = ops[p].address)]_vars

\* a connect whose aggregation failed has completed, connected
C19_Witness ==
    \E p \in Slots :
        /\ ops[p].kind = "connect" /\ ops[p].pc = "done"
        /\ ops[p].load = "readFailed"
        /\ account # Null /\ ~loading /\ reputationData = None

====
